---- MODULE Spec2Model ----
(***************************************************************************)
(* spicetify-cli: theme settings resolution (cmd.InitSetting and its       *)
(* helpers) and the watch commands (cmd.Watch, cmd.WatchExtensions).       *)
(*                                                                         *)
(* Paths are sequences of path components (filepath.Join appends one), the *)
(* empty string is the empty sequence.  A go-ini file is the sequence of   *)
(* its sections' names.                                                    *)
(***************************************************************************)
EXTENDS Naturals, Sequences, FiniteSets, TLC

VARIABLES
    cfg,              \* settingSection: the keys of [Setting] InitSetting reads
    fs,               \* the theme folders on disk
    liveUpdate,       \* the argument of Watch and WatchExtensions
    moddable,         \* spotifystatus.Get(spotifyPath).IsModdable()
    endpoint,         \* Spotify runs with a debugger endpoint when the program starts
    extNameList,      \* featureSection.Key("extensions").Strings("|")
    extFound,         \* the extension names getExtensionPath resolves
    replaceColors,    \* package variables of cmd (part_000:33-38)
    injectCSS,
    overwriteAssets,
    themeFolder,
    colorCfg,
    colorSection,
    debuggerURL,      \* package variables of cmd (watch.go:12-13)
    autoReloadFunc,
    lastMsg,          \* the last message printed
    nPrinted,         \* how many messages were printed
    exited,           \* the process has exited (os.Exit, utils.Fatal)
    pc,               \* where the main goroutine is
    extIdx,           \* WatchExtensions: the next index of the range loop
    extPathList,      \* WatchExtensions: the paths resolved so far
    fileList,         \* the paths utils.Watch was given
    onChange,         \* the callback utils.Watch was given
    queue,            \* change events not yet delivered by utils.Watch
    cur,              \* the event utils.Watch is delivering
    assetPc,          \* where the goroutine of utils.WatchRecursive is
    assetPath,        \* the directory utils.WatchRecursive was given
    assetQueue,       \* change events not yet delivered by utils.WatchRecursive
    assetCur,         \* the event utils.WatchRecursive is delivering
    nInitSetting,     \* calls of InitSetting so far
    nChanges,         \* changes made on disk so far
    nNotified,        \* events put in a queue so far
    nDelivered,       \* per loop: events taken from its queue
    nReload,          \* per loop: calls of autoReloadFunc
    nReloadFailed,    \* calls of autoReloadFunc in which SendReload failed
    nDiscover,        \* calls of utils.GetDebuggerPath
    nRelaunch,        \* calls of RestartSpotify
    nCopied,          \* files utils.CopyFile copied
    env,              \* the environment variables getSpicetifyFolder looks up
    goos,             \* runtime.GOOS
    dirs,             \* the paths outside the theme folders that exist on disk
    spicetifyFolder,  \* package variables of cmd (part_000:16, 23-27)
    isAppX,
    spotifyPath,
    prefsPath,
    appPath,
    appDestPath,
    store,            \* settingSection: the keys spotify_path and prefs_path
    configFile,       \* config.ini on disk: the same keys as last written
    detect,           \* what utils.FindAppPath and utils.FindPrefFilePath find
    nWrites,          \* calls of cfg.Write
    nFolderCalls      \* calls of getSpicetifyFolder so far

\* what a run is given: never changed
inputVars == <<cfg, liveUpdate, moddable, endpoint, extNameList, extFound>>

\* the package variables InitSetting writes, and what it prints
settingVars == <<replaceColors, injectCSS, overwriteAssets, themeFolder,
                 colorCfg, colorSection>>

printVars == <<lastMsg, nPrinted>>

debugVars == <<debuggerURL, autoReloadFunc, nDiscover, nRelaunch>>

extVars == <<extIdx, extPathList>>

mainWatchVars == <<fileList, onChange, cur>>

assetVars == <<assetPc, assetPath, assetCur>>

queueVars == <<queue, assetQueue, nNotified>>

countVars == <<nDelivered, nReload, nReloadFailed, nCopied>>

\* what the startup of the program (getSpicetifyFolder, InitPaths) reads and
\* leaves
hostVars == <<env, goos, detect>>

pathVars == <<spicetifyFolder, isAppX, spotifyPath, prefsPath, appPath,
              appDestPath, store, configFile, nWrites, nFolderCalls>>

bootVars == <<hostVars, dirs, pathVars>>

vars == <<inputVars, fs, settingVars, printVars, debugVars, exited, pc, extVars,
          mainWatchVars, assetVars, queueVars, countVars, nInitSetting, nChanges,
          bootVars>>

-----------------------------------------------------------------------------
(* Bounds *)

\* InitSetting is called at most this often in a run of SpecSetting
MaxCalls == 2

\* at most this many changes happen on disk in a run
MaxChanges == 1

\* at most this many change events are put in the queues in a run
MaxEvents == 2

\* at most this many extension names are configured
MaxExt == 2

\* getSpicetifyFolder is called at most this often in a run of SpecFolder
MaxFolderCalls == 2

-----------------------------------------------------------------------------
(* Strings and paths *)

\* filepath.Join(p, c): empty elements are ignored
Join(p, c) == IF c = "" THEN p ELSE Append(p, c)

userThemesFolder == <<"user", "Themes">>

GetExecutableDir == <<"exe">>

\* strings.ToLower, on the names the model uses
Lower(s) ==
    CASE s = "Main" -> "main"
      [] s = "SchemeA" -> "schemea"
      [] s = "SchemeB" -> "schemeb"
      [] s = "Nonexistent" -> "nonexistent"
      [] s = "DEFAULT" -> "default"
      [] OTHER -> s

\* go-ini parseBool: the values Key.MustBool takes as true and as false
TrueStrings == {"1", "t", "T", "TRUE", "true", "True", "YES", "yes", "Yes",
                "y", "ON", "on", "On"}

FalseStrings == {"0", "f", "F", "FALSE", "false", "False", "NO", "no", "No",
                 "n", "OFF", "off", "Off"}

\* Key.MustBool(defaultVal): the default when the value does not parse
MustBool(s, defaultVal) ==
    IF s \in TrueStrings THEN TRUE
    ELSE IF s \in FalseStrings THEN FALSE
    ELSE defaultVal

-----------------------------------------------------------------------------
(* The filesystem: each theme folder is absent, or holds user.css, assets/ *)
(* and color.ini or not.  color.ini is absent, unreadable ("bad": go-ini   *)
(* cannot load it) or holds named sections in file order.                  *)

NoColorFile == [st |-> "absent", sections |-> <<>>]

BadColorFile == [st |-> "bad", sections |-> <<>>]

ColorFileOf(secs) == [st |-> "ok", sections |-> secs]

NoFolder == [exists |-> FALSE, css |-> FALSE, assets |-> FALSE, color |-> NoColorFile]

\* os.Stat(p) returns no error
Stat(f, p) ==
    /\ Len(p) >= 3
    /\ SubSeq(p, 1, 3) \in DOMAIN f
    /\ LET d == f[SubSeq(p, 1, 3)]
       IN /\ d.exists
          /\ \/ Len(p) = 3
             \/ /\ Len(p) = 4
                /\ CASE p[4] = "color.ini" -> d.color.st # "absent"
                     [] p[4] = "user.css" -> d.css
                     [] p[4] = "assets" -> d.assets
                     [] OTHER -> FALSE

\* the implicit section go-ini's parser creates before it reads the first line
DefaultSection == "DEFAULT"

NilFile == [loaded |-> FALSE, sections |-> <<>>]

NilSection == "<nil>"

\* ini.InsensitiveLoad(p): the file with its section names lower-cased, the
\* implicit default section first; (nil, err) when the file cannot be loaded
InsensitiveLoad(f, p) ==
    LET c == IF Stat(f, p) THEN f[SubSeq(p, 1, 3)].color ELSE NoColorFile
    IN IF c.st = "ok"
       THEN [err |-> FALSE,
             file |-> [loaded |-> TRUE,
                       sections |-> <<Lower(DefaultSection)>> \o
                                    [i \in 1..Len(c.sections) |-> Lower(c.sections[i])]]]
       ELSE [err |-> TRUE, file |-> NilFile]

\* File.Sections(): every section of the file, the default section included
Sections(file) == file.sections

\* File.GetSection(name) of a file loaded insensitively
GetSection(file, name) ==
    LET n == Lower(name)
    IN IF \E i \in 1..Len(file.sections) : file.sections[i] = n
       THEN [err |-> FALSE, section |-> n]
       ELSE [err |-> TRUE, section |-> NilSection]

-----------------------------------------------------------------------------
(* The package variables as one record, for the functions that update them *)

Globals ==
    [replaceColors |-> replaceColors, injectCSS |-> injectCSS,
     overwriteAssets |-> overwriteAssets, themeFolder |-> themeFolder,
     colorCfg |-> colorCfg, colorSection |-> colorSection,
     lastMsg |-> lastMsg, nPrinted |-> nPrinted, exited |-> exited]

\* the package variables when the process starts (Go's zero values)
ZeroGlobals ==
    [replaceColors |-> FALSE, injectCSS |-> FALSE, overwriteAssets |-> FALSE,
     themeFolder |-> <<>>, colorCfg |-> NilFile, colorSection |-> NilSection,
     lastMsg |-> "", nPrinted |-> 0, exited |-> FALSE]

PrintError(g, msg) == [g EXCEPT !.lastMsg = msg, !.nPrinted = g.nPrinted + 1]

Exit(g) == [g EXCEPT !.exited = TRUE]

\* getThemeFolder looking beside the executable first
getThemeFolderExeFirst(f, themeName) ==
    IF Stat(f, Join(Join(GetExecutableDir, "Themes"), themeName))
    THEN [found |-> TRUE, folder |-> Join(Join(GetExecutableDir, "Themes"), themeName)]
    ELSE IF Stat(f, Join(userThemesFolder, themeName))
    THEN [found |-> TRUE, folder |-> Join(userThemesFolder, themeName)]
    ELSE [found |-> FALSE, folder |-> <<>>]

getThemeFolder(f, themeName) ==
    IF Stat(f, Join(userThemesFolder, themeName))
    THEN [found |-> TRUE, folder |-> Join(userThemesFolder, themeName)]
    ELSE IF Stat(f, Join(Join(GetExecutableDir, "Themes"), themeName))
    THEN [found |-> TRUE, folder |-> Join(Join(GetExecutableDir, "Themes"), themeName)]
    ELSE [found |-> FALSE, folder |-> <<>>]

\* CannotOpenFile exiting, as the other errors of this file do
CannotOpenFileFatal(g) == Exit(PrintError(g, "Cannot open file"))

\* CannotOpenFile turning every feature off, not color replacement alone
CannotOpenFileDisablesAll(g) ==
    [PrintError(g, "Cannot open file") EXCEPT !.replaceColors = FALSE,
                                              !.injectCSS = FALSE,
                                              !.overwriteAssets = FALSE]

\* InitSetting, lines 143-147: the color file does not load
CannotOpenFile(g) ==
    [PrintError(g, "Cannot open file") EXCEPT !.replaceColors = FALSE]

\* NoSectionFound without line 153: the error is printed, the flag stays on
NoSectionFoundKeepsColors(g) == PrintError(g, "No section found")

\* InitSetting, lines 151-155: Sections() holds fewer than two sections
NoSectionFound(g) ==
    [PrintError(g, "No section found") EXCEPT !.replaceColors = FALSE]

\* BlankScheme taking sections[0] instead of sections[1]
BlankSchemeFirst(g, sections) == [g EXCEPT !.colorSection = sections[1]]

\* InitSetting, lines 158-161: color_scheme is blank
BlankScheme(g, sections) == [g EXCEPT !.colorSection = sections[2]]

\* UnknownScheme without line 165: returns and leaves colorSection as it was
UnknownSchemeKeeps(g, sections) == g

\* InitSetting, lines 163-167: color_scheme names no section
UnknownScheme(g, sections) == [g EXCEPT !.colorSection = sections[2]]

\* InitSetting, lines 141-170: the color file and the color scheme
InitColor(g, c, f) ==
    LET colorPath == Join(g.themeFolder, "color.ini")
        ld == InsensitiveLoad(f, colorPath)
        g3 == [g EXCEPT !.colorCfg = ld.file]
        sections == Sections(g3.colorCfg)
        schemeName == c.color_scheme
        schemeSection == GetSection(g3.colorCfg, schemeName)
    IN IF ld.err
       THEN CannotOpenFile(g3)
       ELSE IF Len(sections) < 2
       THEN NoSectionFound(g3)
       ELSE IF Len(schemeName) = 0
       THEN BlankScheme(g3, sections)
       ELSE IF schemeSection.err
       THEN UnknownScheme(g3, sections)
       ELSE [g3 EXCEPT !.colorSection = schemeSection.section]

\* InitFlags without lines 132-135: assets/ is never looked for
InitFlagsAssetsUnchecked(g, f) ==
    [g EXCEPT
       !.replaceColors = IF g.replaceColors
                         THEN Stat(f, Join(g.themeFolder, "color.ini")) ELSE FALSE,
       !.injectCSS = IF g.injectCSS
                     THEN Stat(f, Join(g.themeFolder, "user.css")) ELSE FALSE]

\* InitSetting, lines 122-135: a feature stays on only if its file is there
InitFlags(g, f) ==
    [g EXCEPT
       !.replaceColors = IF g.replaceColors
                         THEN Stat(f, Join(g.themeFolder, "color.ini")) ELSE FALSE,
       !.injectCSS = IF g.injectCSS
                     THEN Stat(f, Join(g.themeFolder, "user.css")) ELSE FALSE,
       !.overwriteAssets = IF g.overwriteAssets
                           THEN Stat(f, Join(g.themeFolder, "assets")) ELSE FALSE]

\* InitSetting, lines 103-105: the raw preferences
ReadPreferences(g, c) ==
    [g EXCEPT
       !.replaceColors = MustBool(c.replace_colors, FALSE),
       !.injectCSS = MustBool(c.inject_css, FALSE),
       !.overwriteAssets = MustBool(c.overwrite_assets, FALSE)]

\* BlankTheme without line 112: overwriteAssets keeps its raw value
BlankThemeKeepsAssets(g) == [g EXCEPT !.injectCSS = FALSE, !.replaceColors = FALSE]

\* InitSetting, lines 109-114: current_theme is blank
BlankTheme(g) ==
    [g EXCEPT !.injectCSS = FALSE, !.replaceColors = FALSE,
              !.overwriteAssets = FALSE]

\* getThemeFolder, lines 240-241: the theme is in neither place
ThemeNotFound(g) == Exit(PrintError(g, "Theme not found"))

\* InitSetting under config c and filesystem f, from package variables g
InitSetting(g, c, f) ==
    LET g0 == ReadPreferences(g, c)
        themeName == c.current_theme
        tf == getThemeFolder(f, themeName)
        g1 == [g0 EXCEPT !.themeFolder = tf.folder]
        g2 == InitFlags(g1, f)
    IN IF Len(themeName) = 0
       THEN BlankTheme(g0)
       ELSE IF ~tf.found
       THEN ThemeNotFound(g0)
       ELSE IF ~g2.replaceColors
       THEN g2
       ELSE InitColor(g2, c, f)

\* the package variables become g
SetGlobals(g) ==
    /\ replaceColors' = g.replaceColors
    /\ injectCSS' = g.injectCSS
    /\ overwriteAssets' = g.overwriteAssets
    /\ themeFolder' = g.themeFolder
    /\ colorCfg' = g.colorCfg
    /\ colorSection' = g.colorSection
    /\ lastMsg' = g.lastMsg
    /\ nPrinted' = g.nPrinted
    /\ exited' = g.exited

\* the package variables hold Go's zero values
SetGlobalsInit ==
    /\ replaceColors = ZeroGlobals.replaceColors
    /\ injectCSS = ZeroGlobals.injectCSS
    /\ overwriteAssets = ZeroGlobals.overwriteAssets
    /\ themeFolder = ZeroGlobals.themeFolder
    /\ colorCfg = ZeroGlobals.colorCfg
    /\ colorSection = ZeroGlobals.colorSection
    /\ lastMsg = ZeroGlobals.lastMsg
    /\ nPrinted = ZeroGlobals.nPrinted
    /\ exited = ZeroGlobals.exited

-----------------------------------------------------------------------------
(* Inputs *)

ThemeNames == {"", "T"}

UserT == Join(userThemesFolder, "T")

ExeT == Join(Join(GetExecutableDir, "Themes"), "T")

Folders == {UserT, ExeT}

RawBools == {"true", "0", ""}

SchemeNames == {"", "SchemeB", "Nonexistent", "DEFAULT"}

SectionLists == {<<>>, <<"Main">>, <<"Main", "SchemeA", "SchemeB">>}

ColorFiles == {NoColorFile, BadColorFile} \cup {ColorFileOf(s) : s \in SectionLists}

FolderStates ==
    {NoFolder} \cup
    [exists : {TRUE}, css : BOOLEAN, assets : BOOLEAN, color : ColorFiles]

\* the theme as spicetify ships it beside the executable
BundledTheme ==
    [exists |-> TRUE, css |-> TRUE, assets |-> TRUE,
     color |-> ColorFileOf(<<"Main", "SchemeA", "SchemeB">>)]

\* the disk when the program starts: any user theme folder, and the bundled
\* theme folder as shipped or not there
InitialDisks ==
    {f \in [Folders -> FolderStates] : f[ExeT] \in {NoFolder, BundledTheme}}

Configs ==
    [replace_colors : RawBools, inject_css : RawBools, overwrite_assets : RawBools,
     current_theme : ThemeNames, color_scheme : SchemeNames]

-----------------------------------------------------------------------------
(* Inputs of the watch commands *)

ExtNames == {"a.js", "b.js"}

userExtensionsFolder == <<"user", "Extensions">>

\* the lists of at most MaxExt extension names
ExtLists == UNION {[1..n -> ExtNames] : n \in 0..MaxExt}

\* a theme with all three resources, in the user's themes folder
UserTheme ==
    [exists |-> TRUE, css |-> TRUE, assets |-> TRUE,
     color |-> ColorFileOf(<<"Main", "SchemeA", "SchemeB">>)]

\* a theme of the user that has only its color.ini yet
UserThemeColorsOnly == [UserTheme EXCEPT !.css = FALSE, !.assets = FALSE]

\* the disk when a watch command starts: the theme in the user's folder, or
\* only the bundled one, or none
WatchDisks ==
    {f \in [Folders -> {NoFolder, UserTheme, UserThemeColorsOnly, BundledTheme}] :
        /\ f[UserT] \in {NoFolder, UserTheme, UserThemeColorsOnly}
        /\ f[ExeT] \in {NoFolder, BundledTheme}
        /\ ~(f[UserT] # NoFolder /\ f[ExeT] = BundledTheme)}

WatchConfigs ==
    [replace_colors : {"true", "0"}, inject_css : {"true", "0"},
     overwrite_assets : {"true", "0"}, current_theme : ThemeNames,
     color_scheme : {""}]

\* the inputs a command does not read
NoConfig ==
    [replace_colors |-> "", inject_css |-> "", overwrite_assets |-> "",
     current_theme |-> "", color_scheme |-> ""]

NoDisk == [d \in Folders |-> NoFolder]

Loops == {"main", "asset"}

-----------------------------------------------------------------------------
(* Change events.  utils.Watch and utils.WatchRecursive are not among the  *)
(* sources: a change of a watched path puts one event in the queue of the  *)
(* loop that watches it, and the loop delivers the events one at a time.   *)

NoEvent == [path |-> <<>>, err |-> FALSE]

Event(p) == [path |-> p, err |-> FALSE]

ErrorEvent(p) == [path |-> p, err |-> TRUE]

\* utils.Watch was called: the main loop watches fileList
Subscribed == onChange # "none"

\* utils.WatchRecursive was called: the asset loop watches assetPath
AssetSubscribed == assetPc # "none"

\* the file at p differs between the states old and new of folder d
Affected(p, d, old, new) ==
    /\ Len(p) = 4
    /\ SubSeq(p, 1, 3) = d
    /\ CASE p[4] = "color.ini" -> old.color # new.color
         [] p[4] = "user.css" -> old.css # new.css
         [] p[4] = "assets" -> old.assets # new.assets
         [] OTHER -> FALSE

\* one event for each path of list that the change of folder d affects
EventsFor(list, d, old, new) ==
    LET Hit(p) == Affected(p, d, old, new)
        hit == SelectSeq(list, Hit)
    IN [i \in 1..Len(hit) |-> Event(hit[i])]

\* the path p is there: an extension file, or a file of a theme folder
Exists(p) ==
    IF Len(p) = 3 /\ SubSeq(p, 1, 2) = userExtensionsFolder
    THEN p[3] \in extFound
    ELSE Stat(fs, p)

-----------------------------------------------------------------------------
(* Startup: the root directory (getSpicetifyFolder) and the paths of       *)
(* Spotify (InitPaths).  An environment variable is unset, or set to a     *)
(* path; the empty path is the empty string.                               *)

Unset == [set |-> FALSE, val |-> <<>>]

SetTo(p) == [set |-> TRUE, val |-> p]

\* os.LookupEnv(name)
LookupEnv(e, name) == [result |-> e[name].val, isAvailable |-> e[name].set]

\* os.Getenv(name): the empty string when the variable is unset
Getenv(e, name) == e[name].val

\* getSpicetifyFolder joining ".spicetify" to the override as well
getSpicetifyFolderJoinsOverride(e, os) ==
    LET lk == LookupEnv(e, "SPICETIFY_CONFIG")
        xdg == LookupEnv(e, "XDG_CONFIG_HOME")
        parent == IF ~xdg.isAvailable \/ Len(xdg.result) = 0
                  THEN Join(Getenv(e, "HOME"), ".config")
                  ELSE xdg.result
    IN IF lk.isAvailable /\ Len(lk.result) > 0
       THEN Join(lk.result, ".spicetify")
       ELSE IF os = "windows"
       THEN Join(Getenv(e, "USERPROFILE"), ".spicetify")
       ELSE IF os = "linux" \/ os = "darwin"
       THEN Join(parent, "spicetify")
       ELSE lk.result

\* getSpicetifyFolder (part_000:182-204): the path it returns under the
\* environment e on the system os
getSpicetifyFolder(e, os) ==
    LET lk == LookupEnv(e, "SPICETIFY_CONFIG")
        xdg == LookupEnv(e, "XDG_CONFIG_HOME")
        parent == IF ~xdg.isAvailable \/ Len(xdg.result) = 0
                  THEN Join(Getenv(e, "HOME"), ".config")
                  ELSE xdg.result
    IN IF lk.isAvailable /\ Len(lk.result) > 0
       THEN lk.result
       ELSE IF os = "windows"
       THEN Join(Getenv(e, "USERPROFILE"), ".spicetify")
       ELSE IF os = "linux" \/ os = "darwin"
       THEN Join(parent, "spicetify")
       ELSE lk.result

\* utils.CheckExistAndCreate(dir) can leave dir on disk: a directory with an
\* empty name cannot be made
Creatable(dir) == Len(dir) > 0

\* the paths on disk after utils.CheckExistAndCreate(dir)
CheckExistAndCreate(ds, dir) == IF Creatable(dir) THEN ds \cup {dir} ELSE ds

\* strings.Contains(path, name), for a name that is one component of a path
Contains(path, name) == \E i \in 1..Len(path) : path[i] = name

EnvNames == {"SPICETIFY_CONFIG", "XDG_CONFIG_HOME", "HOME", "USERPROFILE"}

Systems == {"windows", "linux", "darwin", "freebsd"}

OverrideDir == <<"cfg">>

XdgDir == <<"xdg">>

HomeDir == <<"home", "u">>

ProfileDir == <<"Users", "u">>

Environments ==
    {e \in [EnvNames -> {Unset, SetTo(<<>>), SetTo(OverrideDir), SetTo(XdgDir),
                         SetTo(HomeDir), SetTo(ProfileDir)}] :
        /\ e["SPICETIFY_CONFIG"] \in {Unset, SetTo(<<>>), SetTo(OverrideDir)}
        /\ e["XDG_CONFIG_HOME"] \in {Unset, SetTo(<<>>), SetTo(XdgDir)}
        /\ e["HOME"] \in {Unset, SetTo(HomeDir)}
        /\ e["USERPROFILE"] \in {Unset, SetTo(ProfileDir)}}

\* the directories getSpicetifyFolder can be asked for
RootDirs == {getSpicetifyFolder(e, os) : e \in Environments, os \in Systems}

\* an environment of a Linux user, and the root directory it gives
UserEnv ==
    [n \in EnvNames |-> IF n = "HOME" THEN SetTo(HomeDir) ELSE Unset]

UserRoot == getSpicetifyFolder(UserEnv, "linux")

SpotifyDir == <<"opt", "spotify">>

AppXDir == <<"WindowsApps", "SpotifyAB.SpotifyMusic">>

MissingDir == <<"gone">>

PrefsFile == <<"home", "u", ".config", "spotify", "prefs">>

MissingPrefs == <<"gone", "prefs">>

\* the values of spotify_path and prefs_path in config.ini
Stores ==
    [spotify_path : {<<>>, SpotifyDir, AppXDir, MissingDir},
     prefs_path : {<<>>, PrefsFile, MissingPrefs}]

\* what auto-detection finds: nothing, or a path that is on disk
Detections == [app : {<<>>, SpotifyDir, AppXDir}, pref : {<<>>, PrefsFile}]

\* the paths on disk when InitPaths is called
InstalledDirs == {UserRoot, SpotifyDir, AppXDir, PrefsFile}

\* the package variables of the paths hold Go's zero values
ZeroPaths ==
    /\ isAppX = FALSE
    /\ spotifyPath = <<>> /\ prefsPath = <<>>
    /\ appPath = <<>> /\ appDestPath = <<>>
    /\ nWrites = 0

\* the startup has run on a Linux system with Spotify in SpotifyDir
Started ==
    /\ env = UserEnv /\ goos = "linux"
    /\ detect = [app |-> SpotifyDir, pref |-> PrefsFile]
    /\ dirs = InstalledDirs \cup {Join(SpotifyDir, "Apps")}
    /\ spicetifyFolder = UserRoot
    /\ isAppX = FALSE
    /\ spotifyPath = SpotifyDir /\ prefsPath = PrefsFile
    /\ appPath = Join(SpotifyDir, "Apps") /\ appDestPath = Join(SpotifyDir, "Apps")
    /\ store = [spotify_path |-> SpotifyDir, prefs_path |-> PrefsFile]
    /\ configFile = store
    /\ nWrites = 0
    /\ nFolderCalls = 1

-----------------------------------------------------------------------------

(* Changes on disk, made by the theme's developer while the program runs *)

\* one change: a folder created empty or removed with what it holds, user.css
\* or assets/ created or removed, color.ini written, rewritten or removed
EditsOf(s) ==
    IF ~s.exists
    THEN {[NoFolder EXCEPT !.exists = TRUE]}
    ELSE {NoFolder, [s EXCEPT !.css = ~s.css], [s EXCEPT !.assets = ~s.assets]}
         \cup {[s EXCEPT !.color = c] : c \in ColorFiles \ {s.color}}

\* a change of a theme folder; the loops are told of the watched paths it affects
Edit ==
    /\ ~exited
    /\ nChanges < MaxChanges
    /\ \E d \in Folders, s \in FolderStates :
          LET evs == IF Subscribed
                     THEN EventsFor(fileList, d, fs[d], s) ELSE <<>>
              aevs == IF AssetSubscribed /\ Affected(assetPath, d, fs[d], s)
                      THEN <<Event(assetPath)>> ELSE <<>>
          IN /\ s \in EditsOf(fs[d])
             /\ nNotified + Len(evs) + Len(aevs) <= MaxEvents
             /\ fs' = [fs EXCEPT ![d] = s]
             /\ queue' = queue \o evs
             /\ assetQueue' = assetQueue \o aevs
             /\ nNotified' = nNotified + Len(evs) + Len(aevs)
    /\ nChanges' = nChanges + 1
    /\ UNCHANGED <<bootVars, inputVars, settingVars, printVars, debugVars, exited, pc,
                   extVars, mainWatchVars, assetVars, countVars, nInitSetting>>

\* the content of a watched file is rewritten, or a file under assets/ is
Touch ==
    /\ ~exited
    /\ nNotified < MaxEvents
    /\ \/ /\ Subscribed
          /\ \E i \in 1..Len(fileList) :
                /\ Exists(fileList[i])
                /\ queue' = Append(queue, Event(fileList[i]))
          /\ UNCHANGED assetQueue
       \/ /\ AssetSubscribed
          /\ Stat(fs, assetPath)
          /\ assetQueue' = Append(assetQueue, Event(assetPath))
          /\ UNCHANGED queue
    /\ nNotified' = nNotified + 1
    /\ UNCHANGED <<bootVars, inputVars, fs, settingVars, printVars, debugVars, exited, pc,
                   extVars, mainWatchVars, assetVars, countVars, nInitSetting,
                   nChanges>>

\* the notification mechanism reports an error for a watched path
WatchError ==
    /\ ~exited
    /\ nNotified < MaxEvents
    /\ \/ /\ Subscribed
          /\ \E i \in 1..Len(fileList) :
                queue' = Append(queue, ErrorEvent(fileList[i]))
          /\ UNCHANGED assetQueue
       \/ /\ AssetSubscribed
          /\ assetQueue' = Append(assetQueue, ErrorEvent(assetPath))
          /\ UNCHANGED queue
    /\ nNotified' = nNotified + 1
    /\ UNCHANGED <<bootVars, inputVars, fs, settingVars, printVars, debugVars, exited, pc,
                   extVars, mainWatchVars, assetVars, countVars, nInitSetting,
                   nChanges>>

-----------------------------------------------------------------------------
(* SpecSetting: InitSetting called again and again while the disk changes  *)

\* no watch command runs
NoWatch ==
    /\ liveUpdate = FALSE /\ moddable = TRUE /\ endpoint = FALSE
    /\ extNameList = <<>> /\ extFound = {}
    /\ debuggerURL = "" /\ autoReloadFunc = "nil"
    /\ nDiscover = 0 /\ nRelaunch = 0
    /\ extIdx = 1 /\ extPathList = <<>>
    /\ fileList = <<>> /\ onChange = "none" /\ cur = NoEvent
    /\ assetPc = "none" /\ assetPath = <<>> /\ assetCur = NoEvent
    /\ queue = <<>> /\ assetQueue = <<>> /\ nNotified = 0
    /\ nDelivered = [l \in Loops |-> 0]
    /\ nReload = [l \in Loops |-> 0]
    /\ nReloadFailed = 0 /\ nCopied = 0

CallInitSetting ==
    /\ pc = "InitSetting"
    /\ ~exited
    /\ nInitSetting < MaxCalls
    /\ SetGlobals(InitSetting(Globals, cfg, fs))
    /\ nInitSetting' = nInitSetting + 1
    /\ UNCHANGED <<bootVars, inputVars, fs, debugVars, pc, extVars, mainWatchVars,
                   assetVars, queueVars, countVars, nChanges>>

InitSettingInputs ==
    /\ cfg \in Configs
    /\ fs \in InitialDisks
    /\ SetGlobalsInit
    /\ NoWatch
    /\ Started
    /\ pc = "InitSetting"
    /\ nInitSetting = 0
    /\ nChanges = 0

NextSetting == CallInitSetting \/ Edit

SpecSetting == InitSettingInputs /\ [][NextSetting]_vars

-----------------------------------------------------------------------------
(* Helpers of the watch commands *)

PrintLine(msg) == lastMsg' = msg /\ nPrinted' = nPrinted + 1

EndpointURL == "ws://localhost:9222"

\* startDebugger relaunching Spotify whether or not an endpoint was found
startDebuggerAlwaysRelaunch ==
    /\ debuggerURL' = IF endpoint THEN EndpointURL ELSE ""
    /\ nDiscover' = nDiscover + 1
    /\ nRelaunch' = nRelaunch + 1
    /\ autoReloadFunc' = "reload"

\* startDebugger (watch.go:122-134)
startDebugger ==
    /\ debuggerURL' = IF endpoint THEN EndpointURL ELSE ""
    /\ nDiscover' = nDiscover + 1
    /\ nRelaunch' = IF endpoint THEN nRelaunch ELSE nRelaunch + 1
    /\ autoReloadFunc' = "reload"

\* autoReloadFunc exiting when SendReload fails
AutoReloadFatal(ok) ==
    /\ nReloadFailed' = IF ok THEN nReloadFailed ELSE nReloadFailed + 1
    /\ debuggerURL' = IF ok THEN EndpointURL ELSE debuggerURL
    /\ lastMsg' = IF ok THEN "Spotify reloaded" ELSE "Could not Reload Spotify"
    /\ nPrinted' = nPrinted + 1
    /\ exited' = ~ok

\* the closure bound to autoReloadFunc (watch.go:126-133); ok: SendReload
\* returned nil.  A failure prints an error and an info line.
AutoReload(ok) ==
    /\ nReloadFailed' = IF ok THEN nReloadFailed ELSE nReloadFailed + 1
    /\ debuggerURL' = IF ok THEN EndpointURL ELSE debuggerURL
    /\ lastMsg' = IF ok THEN "Spotify reloaded" ELSE "Close Spotify and run again"
    /\ nPrinted' = IF ok THEN nPrinted + 1 ELSE nPrinted + 2
    /\ exited' = exited

\* utils.Watch, utils.WatchRecursive: after the callback, the reload callback
\* is called if one is bound
AfterChange == IF autoReloadFunc = "nil" THEN "watching" ELSE "reload"

-----------------------------------------------------------------------------
(* InitPaths (part_000:55-99) *)

\* InitPathsSpotify falling back to auto-detection when the configured path
\* does not exist
InitPathsSpotifyFallsBack ==
    /\ pc = "InitPaths" /\ ~exited
    /\ LET configured == store.spotify_path
       IN IF Len(configured) # 0 /\ configured \in dirs
          THEN /\ spotifyPath' = configured
               /\ pc' = "InitPaths_prefs"
               /\ UNCHANGED <<store, printVars, exited>>
          ELSE IF Len(detect.app) # 0
          THEN /\ spotifyPath' = detect.app
               /\ store' = [store EXCEPT !.spotify_path = detect.app]
               /\ pc' = "InitPaths_spotifyWrite"
               /\ UNCHANGED <<printVars, exited>>
          ELSE /\ spotifyPath' = <<>>
               /\ PrintLine("Cannot detect Spotify location")
               /\ exited' = TRUE
               /\ UNCHANGED <<store, pc>>
    /\ UNCHANGED <<inputVars, fs, settingVars, debugVars, extVars, mainWatchVars,
                   assetVars, queueVars, countVars, nInitSetting, nChanges,
                   hostVars, dirs, spicetifyFolder, isAppX, prefsPath, appPath,
                   appDestPath, configFile, nWrites, nFolderCalls>>

\* lines 56-64 and 66-69: spotify_path, up to the key being set
InitPathsSpotify ==
    /\ pc = "InitPaths" /\ ~exited
    /\ LET configured == store.spotify_path
       IN IF Len(configured) # 0
          THEN /\ spotifyPath' = configured
               /\ IF configured \in dirs
                  THEN /\ pc' = "InitPaths_prefs"
                       /\ UNCHANGED <<printVars, exited>>
                  ELSE /\ PrintLine("spotify_path does not exist")
                       /\ exited' = TRUE
                       /\ UNCHANGED pc
               /\ UNCHANGED store
          ELSE IF Len(detect.app) # 0
          THEN /\ spotifyPath' = detect.app
               /\ store' = [store EXCEPT !.spotify_path = detect.app]
               /\ pc' = "InitPaths_spotifyWrite"
               /\ UNCHANGED <<printVars, exited>>
          ELSE /\ spotifyPath' = <<>>
               /\ PrintLine("Cannot detect Spotify location")
               /\ exited' = TRUE
               /\ UNCHANGED <<store, pc>>
    /\ UNCHANGED <<inputVars, fs, settingVars, debugVars, extVars, mainWatchVars,
                   assetVars, queueVars, countVars, nInitSetting, nChanges,
                   hostVars, dirs, spicetifyFolder, isAppX, prefsPath, appPath,
                   appDestPath, configFile, nWrites, nFolderCalls>>

\* cfg.Write(): the store is written to config.ini
Write ==
    /\ configFile' = store
    /\ nWrites' = nWrites + 1

\* line 65
InitPathsSpotifyWrite ==
    /\ pc = "InitPaths_spotifyWrite" /\ ~exited
    /\ Write
    /\ pc' = "InitPaths_prefs"
    /\ UNCHANGED <<inputVars, fs, settingVars, printVars, debugVars, exited,
                   extVars, mainWatchVars, assetVars, queueVars, countVars,
                   nInitSetting, nChanges, hostVars, dirs, spicetifyFolder,
                   isAppX, spotifyPath, prefsPath, appPath, appDestPath, store,
                   nFolderCalls>>

\* lines 71-79 and 81-84: prefs_path, up to the key being set
InitPathsPrefs ==
    /\ pc = "InitPaths_prefs" /\ ~exited
    /\ LET configured == store.prefs_path
       IN IF Len(configured) # 0
          THEN /\ prefsPath' = configured
               /\ IF configured \in dirs
                  THEN /\ pc' = "InitPaths_app"
                       /\ UNCHANGED <<printVars, exited>>
                  ELSE /\ PrintLine("prefs_path does not exist")
                       /\ exited' = TRUE
                       /\ UNCHANGED pc
               /\ UNCHANGED store
          ELSE IF Len(detect.pref) # 0
          THEN /\ prefsPath' = detect.pref
               /\ store' = [store EXCEPT !.prefs_path = detect.pref]
               /\ pc' = "InitPaths_prefsWrite"
               /\ UNCHANGED <<printVars, exited>>
          ELSE /\ prefsPath' = <<>>
               /\ PrintLine("Cannot detect prefs file location")
               /\ exited' = TRUE
               /\ UNCHANGED <<store, pc>>
    /\ UNCHANGED <<inputVars, fs, settingVars, debugVars, extVars, mainWatchVars,
                   assetVars, queueVars, countVars, nInitSetting, nChanges,
                   hostVars, dirs, spicetifyFolder, isAppX, spotifyPath, appPath,
                   appDestPath, configFile, nWrites, nFolderCalls>>

\* line 80
InitPathsPrefsWrite ==
    /\ pc = "InitPaths_prefsWrite" /\ ~exited
    /\ Write
    /\ pc' = "InitPaths_app"
    /\ UNCHANGED <<inputVars, fs, settingVars, printVars, debugVars, exited,
                   extVars, mainWatchVars, assetVars, queueVars, countVars,
                   nInitSetting, nChanges, hostVars, dirs, spicetifyFolder,
                   isAppX, spotifyPath, prefsPath, appPath, appDestPath, store,
                   nFolderCalls>>

\* lines 86-98: the Apps folder; InitPaths returns
InitPathsApp ==
    /\ pc = "InitPaths_app" /\ ~exited
    /\ isAppX' = IF goos = "windows"
                 THEN Contains(spotifyPath, "SpotifyAB.SpotifyMusic")
                 ELSE isAppX
    /\ appPath' = Join(spotifyPath, "Apps")
    /\ appDestPath' = IF isAppX' THEN Join(spicetifyFolder, "AppX") ELSE appPath'
    /\ dirs' = CheckExistAndCreate(dirs, appDestPath')
    /\ pc' = "InitPaths_done"
    /\ UNCHANGED <<inputVars, fs, settingVars, printVars, debugVars, exited,
                   extVars, mainWatchVars, assetVars, queueVars, countVars,
                   nInitSetting, nChanges, hostVars, spicetifyFolder,
                   spotifyPath, prefsPath, store, configFile, nWrites,
                   nFolderCalls>>

\* no other part of the program runs
NoRun ==
    /\ cfg = NoConfig /\ fs = NoDisk
    /\ SetGlobalsInit
    /\ NoWatch
    /\ nInitSetting = 0 /\ nChanges = 0

InitPathsInputs ==
    /\ NoRun
    /\ env = UserEnv
    /\ goos \in {"windows", "linux"}
    /\ detect \in Detections
    /\ dirs = InstalledDirs
    /\ spicetifyFolder = UserRoot
    /\ nFolderCalls = 1
    /\ store \in Stores
    /\ configFile = store
    /\ ZeroPaths
    /\ pc = "InitPaths"

NextPaths ==
    \/ InitPathsSpotify \/ InitPathsSpotifyWrite
    \/ InitPathsPrefs \/ InitPathsPrefsWrite
    \/ InitPathsApp

SpecPaths == InitPathsInputs /\ [][NextPaths]_vars

-----------------------------------------------------------------------------

(* SpecFolder: getSpicetifyFolder called again and again *)

\* one call of getSpicetifyFolder: the deferred utils.CheckExistAndCreate
\* makes the directory if it is not there, and ends the process if it cannot
CallGetSpicetifyFolder ==
    /\ pc = "getSpicetifyFolder" /\ ~exited
    /\ nFolderCalls < MaxFolderCalls
    /\ LET result == getSpicetifyFolder(env, goos)
       IN /\ dirs' = CheckExistAndCreate(dirs, result)
          /\ IF result \in dirs'
             THEN /\ spicetifyFolder' = result
                  /\ UNCHANGED <<printVars, exited>>
             ELSE /\ PrintLine("Fatal")
                  /\ exited' = TRUE
                  /\ UNCHANGED spicetifyFolder
    /\ nFolderCalls' = nFolderCalls + 1
    /\ UNCHANGED <<inputVars, fs, settingVars, debugVars, pc, extVars,
                   mainWatchVars, assetVars, queueVars, countVars, nInitSetting,
                   nChanges, hostVars, isAppX, spotifyPath, prefsPath, appPath,
                   appDestPath, store, configFile, nWrites>>

\* a directory is removed by the user
RemoveDir ==
    /\ pc = "getSpicetifyFolder" /\ ~exited
    /\ nChanges < MaxChanges
    /\ \E d \in dirs : dirs' = dirs \ {d}
    /\ nChanges' = nChanges + 1
    /\ UNCHANGED <<inputVars, fs, settingVars, printVars, debugVars, exited, pc,
                   extVars, mainWatchVars, assetVars, queueVars, countVars,
                   nInitSetting, hostVars, pathVars>>

FolderInputs ==
    /\ NoRun
    /\ env \in Environments
    /\ goos \in Systems
    /\ dirs \in {{}, {d \in {getSpicetifyFolder(env, goos)} : Creatable(d)}}
    /\ detect = [app |-> <<>>, pref |-> <<>>]
    /\ store = [spotify_path |-> <<>>, prefs_path |-> <<>>]
    /\ configFile = store
    /\ ZeroPaths
    /\ spicetifyFolder = <<>>
    /\ nFolderCalls = 0
    /\ pc = "getSpicetifyFolder"

NextFolder == CallGetSpicetifyFolder \/ RemoveDir

SpecFolder == FolderInputs /\ [][NextFolder]_vars

-----------------------------------------------------------------------------

(* Watch (watch.go:17-65) *)

\* lines 18-20
WatchValid ==
    /\ pc = "Watch" /\ ~exited
    /\ IF moddable
       THEN /\ pc' = "Watch_InitSetting"
            /\ UNCHANGED <<printVars, exited>>
       ELSE /\ PrintLine("You haven't applied")
            /\ exited' = TRUE
            /\ UNCHANGED pc
    /\ UNCHANGED <<bootVars, inputVars, fs, settingVars, debugVars, extVars, mainWatchVars,
                   assetVars, queueVars, countVars, nInitSetting, nChanges>>

\* WatchInitSetting going on to startDebugger whatever liveUpdate is
WatchInitSettingAlwaysDebugs ==
    /\ pc = "Watch_InitSetting" /\ ~exited
    /\ SetGlobals(InitSetting(Globals, cfg, fs))
    /\ nInitSetting' = nInitSetting + 1
    /\ pc' = "Watch_startDebugger"
    /\ UNCHANGED <<bootVars, inputVars, fs, debugVars, extVars, mainWatchVars,
                   assetVars, queueVars, countVars, nChanges>>

\* line 22
WatchInitSetting ==
    /\ pc = "Watch_InitSetting" /\ ~exited
    /\ SetGlobals(InitSetting(Globals, cfg, fs))
    /\ nInitSetting' = nInitSetting + 1
    /\ pc' = IF liveUpdate THEN "Watch_startDebugger" ELSE "Watch_fileList"
    /\ UNCHANGED <<bootVars, inputVars, fs, debugVars, extVars, mainWatchVars, assetVars,
                   queueVars, countVars, nChanges>>

\* lines 24-26
WatchStartDebugger ==
    /\ pc = "Watch_startDebugger" /\ ~exited
    /\ startDebugger
    /\ pc' = "Watch_fileList"
    /\ UNCHANGED <<bootVars, inputVars, fs, settingVars, printVars, exited, extVars,
                   mainWatchVars, assetVars, queueVars, countVars, nInitSetting,
                   nChanges>>

\* lines 28-43
WatchFileList ==
    /\ pc = "Watch_fileList" /\ ~exited
    /\ IF Len(themeFolder) = 0
       THEN /\ PrintLine("current_theme is blank")
            /\ exited' = TRUE
            /\ UNCHANGED <<pc, fileList>>
       ELSE /\ fileList' =
                 (IF replaceColors THEN <<Join(themeFolder, "color.ini")>> ELSE <<>>)
                 \o (IF injectCSS THEN <<Join(themeFolder, "user.css")>> ELSE <<>>)
            /\ pc' = "Watch_assets"
            /\ UNCHANGED <<printVars, exited>>
    /\ UNCHANGED <<bootVars, inputVars, fs, settingVars, debugVars, extVars, onChange, cur,
                   assetVars, queueVars, countVars, nInitSetting, nChanges>>

\* WatchAssets without the go statement: no asset watcher is started
WatchAssetsNoSpawn ==
    /\ pc = "Watch_assets" /\ ~exited
    /\ UNCHANGED <<assetPath, assetPc>>
    /\ pc' = "Watch_watch"
    /\ UNCHANGED <<bootVars, inputVars, fs, settingVars, printVars, debugVars, exited,
                   extVars, mainWatchVars, assetCur, queueVars, countVars,
                   nInitSetting, nChanges>>

\* lines 45-55: go utils.WatchRecursive(assetPath, ..., autoReloadFunc)
WatchAssets ==
    /\ pc = "Watch_assets" /\ ~exited
    /\ IF overwriteAssets
       THEN /\ assetPath' = Join(themeFolder, "assets")
            /\ assetPc' = "watching"
       ELSE UNCHANGED <<assetPath, assetPc>>
    /\ pc' = "Watch_watch"
    /\ UNCHANGED <<bootVars, inputVars, fs, settingVars, printVars, debugVars, exited,
                   extVars, mainWatchVars, assetCur, queueVars, countVars,
                   nInitSetting, nChanges>>

\* line 57: utils.Watch(fileList, ..., autoReloadFunc) is called
WatchWatch ==
    /\ pc = "Watch_watch" /\ ~exited
    /\ onChange' = "settings"
    /\ pc' = "watching"
    /\ UNCHANGED <<bootVars, inputVars, fs, settingVars, printVars, debugVars, exited,
                   extVars, fileList, cur, assetVars, queueVars, countVars,
                   nInitSetting, nChanges>>

\* OnSettingsChange without line 62: the settings are not resolved again
OnSettingsChangeNoInit ==
    /\ pc = "onChange" /\ onChange = "settings" /\ ~exited
    /\ IF cur.err
       THEN /\ SetGlobals(Exit(PrintError(Globals, "Fatal")))
            /\ UNCHANGED <<pc, nInitSetting>>
       ELSE /\ SetGlobals(Globals)
            /\ UNCHANGED nInitSetting
            /\ pc' = AfterChange
    /\ UNCHANGED <<bootVars, inputVars, fs, debugVars, extVars, mainWatchVars, assetVars,
                   queueVars, countVars, nChanges>>

\* OnSettingsChange making the file list anew from the settings it resolved
OnSettingsChangeRewatches ==
    /\ pc = "onChange" /\ onChange = "settings" /\ ~exited
    /\ IF cur.err
       THEN /\ SetGlobals(Exit(PrintError(Globals, "Fatal")))
            /\ UNCHANGED <<pc, nInitSetting, fileList>>
       ELSE /\ SetGlobals(InitSetting(Globals, cfg, fs))
            /\ nInitSetting' = nInitSetting + 1
            /\ pc' = IF InitSetting(Globals, cfg, fs).exited THEN pc ELSE AfterChange
            /\ fileList' =
                 (IF replaceColors' THEN <<Join(themeFolder', "color.ini")>> ELSE <<>>)
                 \o (IF injectCSS' THEN <<Join(themeFolder', "user.css")>> ELSE <<>>)
    /\ UNCHANGED <<bootVars, inputVars, fs, debugVars, extVars, onChange, cur,
                   assetVars, queueVars, countVars, nChanges>>

\* lines 57-64: the callback of the settings files, called with the event cur
OnSettingsChange ==
    /\ pc = "onChange" /\ onChange = "settings" /\ ~exited
    /\ IF cur.err
       THEN /\ SetGlobals(Exit(PrintError(Globals, "Fatal")))
            /\ UNCHANGED <<pc, nInitSetting>>
       ELSE /\ SetGlobals(InitSetting(Globals, cfg, fs))
            /\ nInitSetting' = nInitSetting + 1
            /\ pc' = IF InitSetting(Globals, cfg, fs).exited THEN pc ELSE AfterChange
    /\ UNCHANGED <<bootVars, inputVars, fs, debugVars, extVars, mainWatchVars, assetVars,
                   queueVars, countVars, nChanges>>

\* OnAssetChange going on after an error event: the error is printed only
OnAssetChangeErrorGoesOn ==
    /\ assetPc = "onChange" /\ ~exited
    /\ IF assetCur.err
       THEN /\ PrintLine("Fatal")
            /\ assetPc' = AfterChange
            /\ UNCHANGED exited
       ELSE /\ assetPc' = AfterChange
            /\ UNCHANGED <<printVars, exited>>
    /\ UNCHANGED <<bootVars, inputVars, fs, settingVars, debugVars, pc, extVars,
                   mainWatchVars, assetPath, assetCur, queueVars, countVars,
                   nInitSetting, nChanges>>

\* lines 48-54: the callback of the assets directory, called with assetCur;
\* updateAssets copies the assets of themeFolder
OnAssetChange ==
    /\ assetPc = "onChange" /\ ~exited
    /\ IF assetCur.err
       THEN /\ PrintLine("Fatal")
            /\ exited' = TRUE
            /\ UNCHANGED assetPc
       ELSE /\ assetPc' = AfterChange
            /\ UNCHANGED <<printVars, exited>>
    /\ UNCHANGED <<bootVars, inputVars, fs, settingVars, debugVars, pc, extVars,
                   mainWatchVars, assetPath, assetCur, queueVars, countVars,
                   nInitSetting, nChanges>>

-----------------------------------------------------------------------------
(* WatchExtensions (watch.go:68-109) *)

\* lines 69-71
ExtValid ==
    /\ pc = "WatchExtensions" /\ ~exited
    /\ IF moddable
       THEN /\ pc' = IF liveUpdate THEN "Ext_startDebugger" ELSE "Ext_resolve"
            /\ UNCHANGED <<printVars, exited>>
       ELSE /\ PrintLine("You haven't applied")
            /\ exited' = TRUE
            /\ UNCHANGED pc
    /\ UNCHANGED <<bootVars, inputVars, fs, settingVars, debugVars, extVars, mainWatchVars,
                   assetVars, queueVars, countVars, nInitSetting, nChanges>>

\* lines 73-75
ExtStartDebugger ==
    /\ pc = "Ext_startDebugger" /\ ~exited
    /\ startDebugger
    /\ pc' = "Ext_resolve"
    /\ UNCHANGED <<bootVars, inputVars, fs, settingVars, printVars, exited, extVars,
                   mainWatchVars, assetVars, queueVars, countVars, nInitSetting,
                   nChanges>>

\* getExtensionPath(name)
getExtensionPath(name) ==
    IF name \in extFound
    THEN [err |-> FALSE, path |-> Join(userExtensionsFolder, name)]
    ELSE [err |-> TRUE, path |-> <<>>]

\* ExtResolve appending the path of a name that was not found as well
ExtResolveKeepsAll ==
    /\ pc = "Ext_resolve" /\ ~exited
    /\ extIdx <= Len(extNameList)
    /\ LET v == extNameList[extIdx]
           r == getExtensionPath(v)
       IN /\ IF r.err THEN PrintLine("Extension not found") ELSE UNCHANGED printVars
          /\ extPathList' = Append(extPathList, Join(userExtensionsFolder, v))
    /\ extIdx' = extIdx + 1
    /\ UNCHANGED <<bootVars, inputVars, fs, settingVars, debugVars, exited, pc,
                   mainWatchVars, assetVars, queueVars, countVars, nInitSetting,
                   nChanges>>

\* lines 80-87: one round of the loop over extNameList
ExtResolve ==
    /\ pc = "Ext_resolve" /\ ~exited
    /\ extIdx <= Len(extNameList)
    /\ LET v == extNameList[extIdx]
           r == getExtensionPath(v)
       IN IF r.err
          THEN /\ PrintLine("Extension not found")
               /\ UNCHANGED extPathList
          ELSE /\ extPathList' = Append(extPathList, r.path)
               /\ UNCHANGED printVars
    /\ extIdx' = extIdx + 1
    /\ UNCHANGED <<bootVars, inputVars, fs, settingVars, debugVars, exited, pc,
                   mainWatchVars, assetVars, queueVars, countVars, nInitSetting,
                   nChanges>>

\* lines 89-96: after the loop; utils.Watch(extPathList, ..., autoReloadFunc)
ExtWatch ==
    /\ pc = "Ext_resolve" /\ ~exited
    /\ extIdx > Len(extNameList)
    /\ IF Len(extPathList) = 0
       THEN /\ PrintLine("No extension to watch")
            /\ exited' = TRUE
            /\ UNCHANGED <<pc, fileList, onChange>>
       ELSE /\ fileList' = extPathList
            /\ onChange' = "extension"
            /\ pc' = "watching"
            /\ UNCHANGED <<printVars, exited>>
    /\ UNCHANGED <<bootVars, inputVars, fs, settingVars, debugVars, extVars, cur,
                   assetVars, queueVars, countVars, nInitSetting, nChanges>>

\* lines 96-108: the callback of the extension files, called with the event
\* cur; ok: utils.CopyFile returned nil
OnExtensionChange ==
    /\ pc = "onChange" /\ onChange = "extension" /\ ~exited
    /\ \E ok \in BOOLEAN :
          IF cur.err
          THEN /\ ok
               /\ PrintLine("watch error")
               /\ exited' = TRUE
               /\ UNCHANGED <<pc, nCopied>>
          ELSE IF ~ok
          THEN /\ PrintLine("copy error")
               /\ exited' = TRUE
               /\ UNCHANGED <<pc, nCopied>>
          ELSE /\ PrintLine("Extension is updated")
               /\ nCopied' = nCopied + 1
               /\ pc' = AfterChange
               /\ UNCHANGED exited
    /\ UNCHANGED <<bootVars, inputVars, fs, settingVars, debugVars, extVars, mainWatchVars,
                   assetVars, queueVars, nDelivered, nReload, nReloadFailed,
                   nInitSetting, nChanges>>

-----------------------------------------------------------------------------
(* The loops of utils.Watch and utils.WatchRecursive *)

\* utils.Watch takes the next event and calls the callback with it
Deliver ==
    /\ pc = "watching" /\ ~exited
    /\ queue # <<>>
    /\ cur' = Head(queue)
    /\ queue' = Tail(queue)
    /\ pc' = "onChange"
    /\ nDelivered' = [nDelivered EXCEPT !["main"] = @ + 1]
    /\ UNCHANGED <<bootVars, inputVars, fs, settingVars, printVars, debugVars, exited,
                   extVars, fileList, onChange, assetVars, assetQueue, nNotified,
                   nReload, nReloadFailed, nCopied, nInitSetting, nChanges>>

\* utils.Watch calls autoReloadFunc after the callback returned
Reload ==
    /\ pc = "reload" /\ ~exited
    /\ \E ok \in BOOLEAN : AutoReload(ok)
    /\ pc' = "watching"
    /\ nReload' = [nReload EXCEPT !["main"] = @ + 1]
    /\ UNCHANGED <<bootVars, inputVars, fs, settingVars, autoReloadFunc, nDiscover,
                   nRelaunch, extVars, mainWatchVars, assetVars, queueVars,
                   nDelivered, nCopied, nInitSetting, nChanges>>

\* utils.WatchRecursive takes the next event and calls the callback with it
AssetDeliver ==
    /\ assetPc = "watching" /\ ~exited
    /\ assetQueue # <<>>
    /\ assetCur' = Head(assetQueue)
    /\ assetQueue' = Tail(assetQueue)
    /\ assetPc' = "onChange"
    /\ nDelivered' = [nDelivered EXCEPT !["asset"] = @ + 1]
    /\ UNCHANGED <<bootVars, inputVars, fs, settingVars, printVars, debugVars, exited, pc,
                   extVars, mainWatchVars, assetPath, queue, nNotified,
                   nReload, nReloadFailed, nCopied, nInitSetting, nChanges>>

\* utils.WatchRecursive calls autoReloadFunc after the callback returned
AssetReload ==
    /\ assetPc = "reload" /\ ~exited
    /\ \E ok \in BOOLEAN : AutoReload(ok)
    /\ assetPc' = "watching"
    /\ nReload' = [nReload EXCEPT !["asset"] = @ + 1]
    /\ UNCHANGED <<bootVars, inputVars, fs, settingVars, autoReloadFunc, nDiscover,
                   nRelaunch, pc, extVars, mainWatchVars, assetPath, assetCur,
                   queueVars, nDelivered, nCopied, nInitSetting, nChanges>>

-----------------------------------------------------------------------------
(* Spec: one run of Watch or of WatchExtensions *)

Init ==
    /\ pc \in {"Watch", "WatchExtensions"}
    /\ liveUpdate \in BOOLEAN
    /\ moddable \in BOOLEAN
    /\ endpoint \in BOOLEAN
    /\ IF pc = "Watch"
       THEN /\ cfg \in WatchConfigs
            /\ fs \in WatchDisks
            /\ extNameList = <<>>
            /\ extFound = {}
       ELSE /\ cfg = NoConfig
            /\ fs = NoDisk
            /\ extNameList \in ExtLists
            /\ extFound \in SUBSET ExtNames
    /\ SetGlobalsInit
    /\ debuggerURL = "" /\ autoReloadFunc = "nil"
    /\ nDiscover = 0 /\ nRelaunch = 0
    /\ extIdx = 1 /\ extPathList = <<>>
    /\ fileList = <<>> /\ onChange = "none" /\ cur = NoEvent
    /\ assetPc = "none" /\ assetPath = <<>> /\ assetCur = NoEvent
    /\ queue = <<>> /\ assetQueue = <<>> /\ nNotified = 0
    /\ nDelivered = [l \in Loops |-> 0]
    /\ nReload = [l \in Loops |-> 0]
    /\ nReloadFailed = 0 /\ nCopied = 0
    /\ nInitSetting = 0
    /\ nChanges = 0
    /\ Started

Next ==
    \/ WatchValid \/ WatchInitSetting \/ WatchStartDebugger \/ WatchFileList
    \/ WatchAssets \/ WatchWatch
    \/ ExtValid \/ ExtStartDebugger \/ ExtResolve \/ ExtWatch
    \/ Deliver \/ OnSettingsChange \/ OnExtensionChange \/ Reload
    \/ AssetDeliver \/ OnAssetChange \/ AssetReload
    \/ Edit \/ Touch \/ WatchError

Spec == Init /\ [][Next]_vars

-----------------------------------------------------------------------------
(* Theme settings resolution *)

\* a step that is a call of InitSetting
InitSettingCalled == nInitSetting' = nInitSetting + 1

\* a step that is a call of InitSetting that returns
InitSettingReturns == InitSettingCalled /\ ~exited'

\* the named sections of the color file of folder d, as written
FileSections(d) == IF d \in DOMAIN fs THEN fs[d].color.sections ELSE <<>>

\* C1: after a call of InitSetting that returns, an effective flag is true
\* only if its raw preference is true and its resource exists under the
\* resolved theme folder
C1_FlagsGated ==
    [][InitSettingReturns =>
         /\ replaceColors' =>
               /\ MustBool(cfg.replace_colors, FALSE)
               /\ Stat(fs, Join(themeFolder', "color.ini"))
         /\ injectCSS' =>
               /\ MustBool(cfg.inject_css, FALSE)
               /\ Stat(fs, Join(themeFolder', "user.css"))
         /\ overwriteAssets' =>
               /\ MustBool(cfg.overwrite_assets, FALSE)
               /\ Stat(fs, Join(themeFolder', "assets"))]_vars

\* overwrite_assets is on, the theme folder has no assets/, the other two
\* features are on: InitSetting returned with overwriteAssets off
C1_Witness ==
    /\ nInitSetting = 1 /\ nChanges = 0 /\ ~exited
    /\ MustBool(cfg.overwrite_assets, FALSE)
    /\ themeFolder # <<>>
    /\ ~Stat(fs, Join(themeFolder, "assets"))
    /\ ~overwriteAssets /\ replaceColors /\ injectCSS

\* C2: with current_theme blank, a call of InitSetting returns and leaves
\* the three effective flags false, whatever the raw values and the disk
C2_BlankThemeAllOff ==
    [][(InitSettingCalled /\ cfg.current_theme = "") =>
         /\ ~exited'
         /\ ~replaceColors' /\ ~injectCSS' /\ ~overwriteAssets']_vars

\* current_theme is blank, the three raw values are true and the user theme
\* folder holds all three resources: InitSetting returned with all flags off
C2_Witness ==
    /\ nInitSetting = 1 /\ nChanges = 0 /\ ~exited
    /\ cfg.current_theme = ""
    /\ MustBool(cfg.replace_colors, FALSE)
    /\ MustBool(cfg.inject_css, FALSE)
    /\ MustBool(cfg.overwrite_assets, FALSE)
    /\ fs[UserT].css /\ fs[UserT].assets /\ fs[UserT].color.st = "ok"
    /\ ~replaceColors /\ ~injectCSS /\ ~overwriteAssets

\* C3 as claimed: when color replacement stays on, the resolved section is the
\* one color_scheme names if the file has it, else the second section of the
\* file in file order
C3_SecondSectionOfFile ==
    [][(InitSettingReturns /\ replaceColors') =>
         LET secs == FileSections(themeFolder')
             named == /\ cfg.color_scheme # ""
                      /\ \E i \in 1..Len(secs) : Lower(secs[i]) = Lower(cfg.color_scheme)
         IN /\ Len(secs) >= 2
            /\ colorSection' = IF named THEN Lower(cfg.color_scheme)
                               ELSE Lower(secs[2])]_vars

\* C3 amended: when color replacement stays on, the resolved section is the
\* section of Sections() that color_scheme names, case-insensitively and
\* go-ini's implicit default section included; if color_scheme is blank or
\* names none, it is Sections()[1], the first named section of the file
C3_FirstNamedSection ==
    [][(InitSettingReturns /\ replaceColors') =>
         LET secs == FileSections(themeFolder')
             all == <<Lower(DefaultSection)>> \o
                    [i \in 1..Len(secs) |-> Lower(secs[i])]
             named == /\ cfg.color_scheme # ""
                      /\ \E i \in 1..Len(all) : all[i] = Lower(cfg.color_scheme)
         IN /\ Len(secs) >= 1
            /\ colorSection' = IF named THEN Lower(cfg.color_scheme)
                               ELSE Lower(secs[1])]_vars

\* the file holds [Main], [SchemeA], [SchemeB] and color_scheme names no
\* section: the resolved section is Main
C3_Witness ==
    /\ nInitSetting = 1 /\ nChanges = 0 /\ ~exited
    /\ replaceColors
    /\ cfg.color_scheme = "Nonexistent"
    /\ FileSections(themeFolder) = <<"Main", "SchemeA", "SchemeB">>
    /\ colorSection = Lower("Main")

\* a call of InitSetting that reaches the color file: replace_colors is on,
\* the theme folder is found and its color.ini loads
ReachesSections ==
    /\ InitSettingReturns
    /\ MustBool(cfg.replace_colors, FALSE)
    /\ themeFolder' \in DOMAIN fs
    /\ fs[themeFolder'].color.st = "ok"

\* C4 as claimed: a color file with fewer than two sections, so also one with
\* exactly one section, makes InitSetting print an error and leave
\* replaceColors false, and the process goes on
C4_FewerThanTwoSections ==
    [][(ReachesSections /\ Len(FileSections(themeFolder')) < 2) =>
         /\ lastMsg' = "No section found"
         /\ nPrinted' = nPrinted + 1
         /\ ~replaceColors']_vars

\* C4 amended: a color file with no named section (Sections() then holds only
\* the implicit default section, fewer than two) makes InitSetting print an
\* error and leave replaceColors false, and the process goes on; a file with
\* exactly one named section keeps replaceColors true and prints nothing
C4_NoNamedSection ==
    [][ReachesSections =>
         /\ Len(FileSections(themeFolder')) = 0 =>
               /\ lastMsg' = "No section found"
               /\ nPrinted' = nPrinted + 1
               /\ ~replaceColors'
         /\ Len(FileSections(themeFolder')) = 1 =>
               /\ replaceColors'
               /\ nPrinted' = nPrinted]_vars

\* replace_colors is on and color.ini loads but holds no named section:
\* InitSetting printed the error and returned with replaceColors off
C4_Witness ==
    /\ nInitSetting = 1 /\ nChanges = 0 /\ ~exited
    /\ MustBool(cfg.replace_colors, FALSE)
    /\ themeFolder # <<>>
    /\ fs[themeFolder].color = ColorFileOf(<<>>)
    /\ lastMsg = "No section found" /\ nPrinted = 1
    /\ ~replaceColors

\* what InitSetting leaves when the package variables hold their zero values
Fresh == InitSetting(ZeroGlobals, cfg, fs)

\* C8 as claimed: the settings a returning call leaves (the three flags,
\* themeFolder, colorSection) are those a call from a fresh process leaves
\* under the same config and disk
C8_PureFunction ==
    [][InitSettingReturns =>
         /\ replaceColors' = Fresh.replaceColors
         /\ injectCSS' = Fresh.injectCSS
         /\ overwriteAssets' = Fresh.overwriteAssets
         /\ themeFolder' = Fresh.themeFolder
         /\ colorSection' = Fresh.colorSection]_vars

\* What does hold of C8: the three flags a returning call leaves are
\* determined by the config and the disk at that call alone; so is themeFolder
\* when current_theme is not blank, and colorSection when the call leaves
\* replaceColors true; otherwise themeFolder and colorSection keep what the
\* earlier call left
C8_FlagsPure ==
    [][InitSettingReturns =>
         /\ replaceColors' = Fresh.replaceColors
         /\ injectCSS' = Fresh.injectCSS
         /\ overwriteAssets' = Fresh.overwriteAssets
         /\ cfg.current_theme # "" => themeFolder' = Fresh.themeFolder
         /\ cfg.current_theme = "" => themeFolder' = themeFolder
         /\ replaceColors' => colorSection' = Fresh.colorSection
         /\ ~replaceColors' => colorSection' = colorSection]_vars

\* a second call, after color.ini changed, returned with replaceColors off
\* and left the color section the first call had resolved
C8_Witness ==
    /\ nInitSetting = 2 /\ nChanges = 1 /\ ~exited
    /\ ~replaceColors
    /\ colorSection # NilSection
    /\ Fresh.colorSection = NilSection
-----------------------------------------------------------------------------
(* The watch loops *)

\* the reload callback is bound
ReloadBound == autoReloadFunc # "nil"

\* C5: in Watch, as long as the process runs, every event delivered to the
\* settings callback has had exactly one InitSetting (besides the one of
\* startup) and, with a reload callback bound, exactly one reload attempt
\* once the loop is back watching; the reaction is complete before its reload
\* is fired, the reload of the event before is done before the next reaction
\* starts, and an event that arrives during a reaction waits in the queue:
\* every event notified is delivered or still queued
C5_SingleFlight ==
    (onChange = "settings" /\ ~exited) =>
        /\ nNotified = nDelivered["main"] + nDelivered["asset"]
                       + Len(queue) + Len(assetQueue)
        /\ pc = "watching" =>
              /\ nInitSetting = 1 + nDelivered["main"]
              /\ ReloadBound => nReload["main"] = nDelivered["main"]
        /\ pc = "onChange" =>
              /\ nInitSetting = nDelivered["main"]
              /\ ReloadBound => nReload["main"] = nDelivered["main"] - 1
        /\ pc = "reload" =>
              /\ ReloadBound
              /\ nInitSetting = 1 + nDelivered["main"]
              /\ nReload["main"] = nDelivered["main"] - 1
        /\ pc \in {"watching", "onChange", "reload"}

\* two notifications of the same settings file: the reaction to the first is
\* complete and its reload not yet fired, the second waits in the queue
C5_Witness ==
    /\ onChange = "settings" /\ ~exited /\ pc = "reload"
    /\ ~cur.err
    /\ queue = <<cur>>
    /\ nDelivered["main"] = 1
    /\ nInitSetting = 2
    /\ nReload["main"] = 0

\* a step in which a reload attempt of loop l fails
ReloadFails(l) ==
    /\ nReload'[l] = nReload[l] + 1
    /\ nReloadFailed' = nReloadFailed + 1

\* C6: a failed reload attempt does not end the process, its loop goes back
\* to watching, and however many attempts failed, each loop that is back
\* watching has made one reload attempt for every event it was delivered
C6_ReloadFailureGoesOn ==
    /\ [][/\ ReloadFails("main") => (~exited' /\ pc' = "watching")
          /\ ReloadFails("asset") => (~exited' /\ assetPc' = "watching")]_vars
    /\ []((ReloadBound /\ ~exited) =>
            /\ (Subscribed /\ pc = "watching") =>
                  nReload["main"] = nDelivered["main"]
            /\ assetPc = "watching" =>
                  nReload["asset"] = nDelivered["asset"])

\* two reload attempts in a row failed and the main loop is watching again
C6_Witness ==
    /\ ~exited /\ pc = "watching"
    /\ nReloadFailed = 2
    /\ nReload["main"] = 2
    /\ nDelivered["main"] = 2

\* the package variables the next step of the main goroutine writes
MainWrites ==
    IF pc = "onChange" /\ onChange = "settings" /\ ~cur.err /\ ~exited
    THEN {"replaceColors", "injectCSS", "overwriteAssets", "themeFolder",
          "colorCfg", "colorSection"}
    ELSE {}

\* the package variables the next step of the asset goroutine reads:
\* updateAssets reads themeFolder
AssetReads ==
    IF assetPc = "onChange" /\ ~assetCur.err /\ ~exited
    THEN {"themeFolder"}
    ELSE {}

\* C7: no package variable is about to be written by the reaction of one loop
\* while the reaction of the other loop is about to read it
C7_NoSharedWrite == MainWrites \cap AssetReads = {}

\* the paths of the names of list that getExtensionPath resolves, in order
ResolvedPaths(list) ==
    LET Found(n) == n \in extFound
        found == SelectSeq(list, Found)
    IN [i \in 1..Len(found) |-> Join(userExtensionsFolder, found[i])]

\* C9: WatchExtensions: a name that does not resolve is reported and skipped,
\* and the loop goes on; after the loop, if no name resolved the process
\* exits with no subscription made, else utils.Watch is given exactly the
\* resolved paths, in the order of the configuration, and keeps them
C9_ResolvedSubset ==
    [][/\ extIdx' = extIdx + 1 =>
             IF extNameList[extIdx] \in extFound
             THEN /\ extPathList' =
                        Append(extPathList,
                               Join(userExtensionsFolder, extNameList[extIdx]))
                  /\ nPrinted' = nPrinted
                  /\ ~exited'
             ELSE /\ extPathList' = extPathList
                  /\ lastMsg' = "Extension not found"
                  /\ nPrinted' = nPrinted + 1
                  /\ ~exited'
       /\ (pc = "Ext_resolve" /\ extIdx' = extIdx /\ ~exited
            /\ (pc' # pc \/ exited')) =>
             IF ResolvedPaths(extNameList) = <<>>
             THEN exited' /\ ~Subscribed' /\ fileList' = <<>>
             ELSE ~exited' /\ Subscribed' /\ fileList' = ResolvedPaths(extNameList)
       /\ onChange = "extension" => fileList' = fileList]_vars

\* of two configured names the first does not resolve: it was reported, and
\* utils.Watch was given the path of the second alone
C9_Witness ==
    /\ onChange = "extension" /\ ~exited
    /\ Len(extNameList) = 2
    /\ extNameList[1] \notin extFound
    /\ fileList = <<Join(userExtensionsFolder, extNameList[2])>>
    /\ nPrinted >= 1

\* a step that is the reaction of the settings callback to an event
\* delivered without error
SettingsReaction ==
    /\ pc = "onChange" /\ onChange = "settings" /\ ~cur.err
    /\ nInitSetting' = nInitSetting + 1

\* a step that is the reaction of the extension callback to an event
\* delivered without error
ExtensionReaction ==
    /\ pc = "onChange" /\ onChange = "extension" /\ ~cur.err
    /\ (pc' # pc \/ exited' # exited)

\* C10 as claimed: a reaction to an event delivered without error never ends
\* the process
C10_ReactionNeverExits ==
    [][(SettingsReaction \/ ExtensionReaction) => ~exited']_vars

\* C10 amended: a reaction to an event delivered without error ends the
\* process in two cases only: re-resolution finds the theme folder in neither
\* place, and CopyFile fails in the extension reaction.  Any other error of
\* re-resolution leaves the process running with the loop on its way back to
\* watching, and a reload attempt never ends the process
C10_ExitsOnlyOnThemeOrCopy ==
    [][/\ SettingsReaction =>
             /\ exited' <=> ~getThemeFolder(fs, cfg.current_theme).found
             /\ ~exited' => pc' = AfterChange
       /\ ExtensionReaction =>
             /\ exited' => (lastMsg' = "copy error" /\ nCopied' = nCopied)
             /\ ~exited' => (nCopied' = nCopied + 1 /\ pc' = AfterChange)
       /\ (nReload' # nReload) => ~exited']_vars

\* color.ini became unreadable while Watch ran: the reaction printed the
\* error, turned replaceColors off, and the loop went on
C10_Witness ==
    /\ onChange = "settings" /\ ~exited
    /\ nDelivered["main"] >= 1
    /\ pc \in {"watching", "reload"}
    /\ lastMsg = "Cannot open file"
    /\ ~replaceColors
    /\ MustBool(cfg.replace_colors, FALSE)

-----------------------------------------------------------------------------
(* Error events *)

\* a step of the main goroutine out of a callback that was handed an event
\* with an error
MainErrorReaction ==
    /\ pc = "onChange" /\ cur.err /\ ~exited
    /\ (pc' # pc \/ lastMsg' \in {"Fatal", "watch error"})

\* a step of the asset goroutine out of its callback that was handed an event
\* with an error
AssetErrorReaction ==
    /\ assetPc = "onChange" /\ assetCur.err /\ ~exited
    /\ (assetPc' # assetPc \/ (lastMsg' = "Fatal" /\ pc' = pc /\ ~MainErrorReaction))

\* C11: a callback handed an event with an error reports it and ends the
\* process: InitSetting is not called and no file is copied for that event, the
\* loop does not leave the callback, so no reload is fired for it; and once the
\* process has ended nothing more happens: no event is delivered, no reload
\* is fired
C11_ErrorEventTerminates ==
    [][/\ MainErrorReaction =>
             /\ exited' /\ nPrinted' = nPrinted + 1
             /\ nInitSetting' = nInitSetting /\ nCopied' = nCopied
             /\ pc' = pc /\ nReload' = nReload
             /\ settingVars' = settingVars
       /\ AssetErrorReaction =>
             /\ exited' /\ nPrinted' = nPrinted + 1
             /\ assetPc' = assetPc /\ nReload' = nReload
       /\ exited => UNCHANGED vars]_vars

\* the asset callback was handed an event with an error while a second event
\* waited: the process ended with the second event still in the queue and no
\* reload fired
C11_Witness ==
    /\ exited /\ lastMsg = "Fatal"
    /\ assetPc = "onChange" /\ assetCur.err
    /\ Len(assetQueue) = 1 /\ ~assetQueue[1].err
    /\ ReloadBound
    /\ nReload = [l \in Loops |-> 0]

-----------------------------------------------------------------------------
(* Session bootstrap *)

\* a step that is a call of startDebugger
StartDebuggerCalled == nDiscover' # nDiscover

\* C12: startDebugger runs once, at startup, and makes one discovery attempt;
\* it asks for a relaunch of Spotify exactly when the attempt yields no
\* endpoint, so at most once, and binds the reload callback in both cases;
\* nothing else discovers, relaunches or binds, and after startup the endpoint
\* held changes only in a reload attempt; a loop started with liveUpdate runs
\* with one discovery made
C12_OneDiscovery ==
    /\ [][/\ StartDebuggerCalled =>
                /\ pc \in {"Watch_startDebugger", "Ext_startDebugger"}
                /\ liveUpdate
                /\ nDiscover = 0 /\ nDiscover' = 1
                /\ nRelaunch' = IF endpoint THEN 0 ELSE 1
                /\ debuggerURL' = IF endpoint THEN EndpointURL ELSE ""
                /\ ReloadBound'
          /\ nRelaunch' # nRelaunch => StartDebuggerCalled
          /\ autoReloadFunc' # autoReloadFunc => StartDebuggerCalled
          /\ debuggerURL' # debuggerURL =>
                (StartDebuggerCalled \/ nReload' # nReload)]_vars
    /\ [](/\ nDiscover <= 1 /\ nRelaunch <= 1
          /\ ReloadBound <=> nDiscover = 1
          /\ nRelaunch = 1 <=> (nDiscover = 1 /\ ~endpoint)
          /\ (Subscribed /\ liveUpdate) => nDiscover = 1)

\* no endpoint at startup: one discovery, one relaunch; of the reload attempts
\* of two later events one failed and one got the endpoint
C12_Witness ==
    /\ liveUpdate /\ ~endpoint /\ ~exited
    /\ nDiscover = 1 /\ nRelaunch = 1
    /\ nReload["main"] = 2 /\ nReloadFailed = 1
    /\ debuggerURL = EndpointURL

-----------------------------------------------------------------------------
(* Errors of the color file *)

\* the theme folder a call of InitSetting resolves
Resolved == getThemeFolder(fs, cfg.current_theme)

\* a call of InitSetting in which resolving the color file fails:
\* replace_colors is on, the theme folder is found and holds a color.ini, and
\* the file does not load or Sections() has fewer than two entries
ColorFileError ==
    /\ InitSettingCalled
    /\ cfg.current_theme # ""
    /\ Resolved.found
    /\ MustBool(cfg.replace_colors, FALSE)
    /\ Stat(fs, Join(Resolved.folder, "color.ini"))
    /\ LET ld == InsensitiveLoad(fs, Join(Resolved.folder, "color.ini"))
       IN ld.err \/ Len(Sections(ld.file)) < 2

-----------------------------------------------------------------------------
(* The paths of Spotify *)

\* InitPaths is at the key k: its value is read next
AtKey(k) ==
    /\ ~exited
    /\ pc = IF k = "spotify_path" THEN "InitPaths" ELSE "InitPaths_prefs"

\* what auto-detection finds for the key k
Detected(k) == IF k = "spotify_path" THEN detect.app ELSE detect.pref

\* the key was set and the store is not yet written
WritePending == pc \in {"InitPaths_spotifyWrite", "InitPaths_prefsWrite"}

\* C14: for each of the two keys, InitPaths sets the key only when its value
\* is blank and auto-detection finds a path, and the next thing it does is to
\* write the store; the store is written at no other time; a value that is
\* not blank is never changed; a value that is not blank and not on disk, or
\* blank with nothing detected, ends the process with an error, the store and
\* config.ini as they were; when InitPaths has returned, spotifyPath and
\* prefsPath are not empty
C14_PathsPersisted ==
    /\ [][/\ \A k \in {"spotify_path", "prefs_path"} :
                /\ store'[k] # store[k] =>
                      /\ AtKey(k)
                      /\ store[k] = <<>> /\ Detected(k) # <<>>
                      /\ store'[k] = Detected(k)
                      /\ WritePending'
                      /\ configFile' = configFile
                /\ (AtKey(k) /\ store[k] # <<>> /\ store[k] \notin dirs) =>
                      /\ exited' /\ nPrinted' = nPrinted + 1
                      /\ store' = store /\ configFile' = configFile
                      /\ nWrites' = nWrites
                /\ (AtKey(k) /\ store[k] = <<>> /\ Detected(k) = <<>>) =>
                      /\ exited' /\ nPrinted' = nPrinted + 1
                      /\ store' = store /\ configFile' = configFile
                      /\ nWrites' = nWrites
                /\ (AtKey(k) /\ store[k] # <<>> /\ store[k] \in dirs) =>
                      /\ ~exited' /\ store' = store /\ ~WritePending'
          /\ WritePending =>
                /\ configFile' = store /\ store' = store
                /\ nWrites' = nWrites + 1 /\ ~WritePending'
          /\ (configFile' # configFile \/ nWrites' # nWrites) => WritePending
          /\ exited' => (configFile' = configFile /\ store' = store)]_vars
    /\ [](pc = "InitPaths_done" =>
            /\ ~exited
            /\ spotifyPath # <<>> /\ prefsPath # <<>>
            /\ spotifyPath = store.spotify_path /\ prefsPath = store.prefs_path
            /\ configFile = store)

\* both values were blank and both paths were detected: InitPaths returned
\* after two writes, config.ini holding the detected paths
C14_Witness ==
    /\ pc = "InitPaths_done" /\ ~exited
    /\ nWrites = 2
    /\ detect.app # <<>> /\ detect.pref # <<>>
    /\ configFile = [spotify_path |-> detect.app, prefs_path |-> detect.pref]
    /\ spotifyPath = detect.app /\ prefsPath = detect.pref

-----------------------------------------------------------------------------
(* Theme folder resolution *)

\* a step in which getThemeFolder is called: InitSetting with a theme named
ThemeFolderCalled == InitSettingCalled /\ cfg.current_theme # ""

\* the folder of the configured theme in the user's themes directory, and in
\* the Themes directory beside the executable
InUserThemes == Append(userThemesFolder, cfg.current_theme)

InExeThemes == Append(Append(GetExecutableDir, "Themes"), cfg.current_theme)

\* the folder d is on disk
OnDisk(d) == d \in DOMAIN fs /\ fs[d].exists

\* C15: getThemeFolder returns the theme's folder in the user's themes
\* directory when it is there, whether or not the one beside the executable
\* is; else the one beside the executable when it is there; else it reports
\* the theme as not found and ends the process, and no folder is returned
C15_UserThemesFirst ==
    [][ThemeFolderCalled =>
         IF OnDisk(InUserThemes)
         THEN ~exited' /\ themeFolder' = InUserThemes
         ELSE IF OnDisk(InExeThemes)
         THEN ~exited' /\ themeFolder' = InExeThemes
         ELSE /\ exited'
              /\ lastMsg' = "Theme not found" /\ nPrinted' = nPrinted + 1
              /\ themeFolder' = themeFolder]_vars

\* the theme is in both directories: the folder of the user's was returned
C15_Witness ==
    /\ nInitSetting = 1 /\ nChanges = 0 /\ ~exited
    /\ cfg.current_theme # ""
    /\ OnDisk(InUserThemes) /\ OnDisk(InExeThemes)
    /\ themeFolder = InUserThemes

-----------------------------------------------------------------------------
(* The root directory *)

\* a step that is a call of getSpicetifyFolder
FolderCalled == nFolderCalls' = nFolderCalls + 1

\* the value of the override SPICETIFY_CONFIG
Override == env["SPICETIFY_CONFIG"]

\* C16: a call of getSpicetifyFolder that follows another returns the path
\* the first returned and does not fail, whether the directory is still there
\* or not; with SPICETIFY_CONFIG set and not empty the path returned is its
\* value; on Windows, Linux and macOS a call returns; and the directory
\* returned is on disk when the call returns
C16_RootIdempotent ==
    [][FolderCalled =>
         /\ nFolderCalls >= 1 =>
               (~exited' /\ spicetifyFolder' = spicetifyFolder)
         /\ (Override.set /\ Override.val # <<>>) =>
               (~exited' /\ spicetifyFolder' = Override.val)
         /\ goos \in {"windows", "linux", "darwin"} => ~exited'
         /\ ~exited' =>
               /\ spicetifyFolder' \in dirs'
               /\ dirs \subseteq dirs'
               /\ dirs' \ dirs \subseteq {spicetifyFolder'}]_vars

\* two calls with no override on Linux, XDG_CONFIG_HOME set: the first made
\* the directory, the second found it and returned the same path
C16_Witness ==
    /\ nFolderCalls = 2 /\ nChanges = 0 /\ ~exited
    /\ goos = "linux"
    /\ ~Override.set
    /\ spicetifyFolder = Append(XdgDir, "spicetify")
    /\ dirs = {spicetifyFolder}

-----------------------------------------------------------------------------
(* The two loops of Watch *)

\* the loops that run
RunningLoops ==
    {l \in Loops : \/ l = "main" /\ Subscribed
                   \/ l = "asset" /\ AssetSubscribed}

\* a step in which Watch enters utils.Watch, its blocking call
EntersWatch == onChange = "none" /\ onChange' = "settings"

\* C17: when Watch enters its blocking call the asset watcher has been
\* started if overwriteAssets is on, on the assets folder of the theme, and
\* has not if it is off; it is started nowhere else, so once both loops run
\* they run together; never more than two loops run, and with
\* overwriteAssets off at startup the settings loop runs alone
C17_AssetWatcherFirst ==
    /\ [][/\ EntersWatch =>
                /\ overwriteAssets <=> AssetSubscribed
                /\ AssetSubscribed => assetPath = Append(themeFolder, "assets")
                /\ RunningLoops' = IF overwriteAssets THEN {"main", "asset"}
                                   ELSE {"main"}
          /\ (~AssetSubscribed /\ AssetSubscribed') =>
                /\ pc = "Watch_assets" /\ overwriteAssets
                /\ ~Subscribed /\ ~Subscribed'
          /\ Subscribed => RunningLoops' = RunningLoops]_vars
    /\ [](/\ Cardinality(RunningLoops) <= 2
          /\ (AssetSubscribed /\ ~Subscribed) => pc = "Watch_watch"
          /\ onChange = "extension" => RunningLoops = {"main"})

\* both loops of Watch are in a reaction at the same time
C17_Witness ==
    /\ onChange = "settings" /\ ~exited
    /\ RunningLoops = {"main", "asset"}
    /\ pc = "onChange" /\ assetPc = "onChange"
    /\ ~cur.err /\ ~assetCur.err

-----------------------------------------------------------------------------
(* The watch targets *)

\* the paths the loops of Watch watch
Targets ==
    {fileList[i] : i \in 1..Len(fileList)}
    \cup (IF AssetSubscribed THEN {assetPath} ELSE {})

\* the paths the settings in force name
TargetsOfSettings ==
    (IF replaceColors THEN {Append(themeFolder, "color.ini")} ELSE {})
    \cup (IF injectCSS THEN {Append(themeFolder, "user.css")} ELSE {})
    \cup (IF overwriteAssets THEN {Append(themeFolder, "assets")} ELSE {})

\* C18: when Watch enters its blocking call the watch targets are those the
\* settings resolved at startup name: color.ini iff replaceColors, user.css
\* iff injectCSS, the assets folder iff overwriteAssets; from then on no step,
\* a reaction that resolves the settings again included, adds or removes a
\* target
C18_TargetsFixed ==
    [][/\ EntersWatch =>
             /\ nInitSetting = 1
             /\ Targets' = TargetsOfSettings
             /\ Len(fileList') = Cardinality({fileList'[i] : i \in 1..Len(fileList')})
       /\ onChange = "settings" =>
             /\ Targets' = Targets
             /\ fileList' = fileList]_vars

\* inject_css is on and user.css was not there at startup: a reaction
\* resolved the settings again and turned injectCSS on, and user.css is
\* still not watched
C18_Witness ==
    /\ onChange = "settings" /\ ~exited /\ pc = "watching"
    /\ nInitSetting = 2
    /\ injectCSS
    /\ Append(themeFolder, "user.css") \notin Targets
    /\ Append(themeFolder, "color.ini") \in Targets

-----------------------------------------------------------------------------
(* Watching without live update *)

\* a step of a loop out of a callback that was handed an event without error
\* and returned
ReactionDone(l) ==
    IF l = "main"
    THEN pc = "onChange" /\ ~cur.err /\ pc' # pc
    ELSE assetPc = "onChange" /\ ~assetCur.err /\ assetPc' # assetPc

\* C19: in a run started with liveUpdate false no reload callback is bound,
\* no endpoint discovery is made, no relaunch of Spotify is asked for and no
\* reload is ever attempted, whatever events come; a callback that has
\* handled an event returns its loop straight to watching
C19_NoLiveUpdateNoReload ==
    /\ [](~liveUpdate =>
            /\ ~ReloadBound
            /\ nDiscover = 0 /\ nRelaunch = 0
            /\ debuggerURL = ""
            /\ nReload = [l \in Loops |-> 0] /\ nReloadFailed = 0
            /\ pc \notin {"reload", "Watch_startDebugger", "Ext_startDebugger"}
            /\ assetPc # "reload")
    /\ [][~liveUpdate =>
            /\ ReactionDone("main") => pc' = "watching"
            /\ ReactionDone("asset") => assetPc' = "watching"]_vars

\* without live update, two events of the settings files were handled, each
\* with its InitSetting, and the loop is watching again
C19_Witness ==
    /\ ~liveUpdate /\ ~exited /\ pc = "watching"
    /\ onChange = "settings"
    /\ nDelivered["main"] = 2
    /\ nInitSetting = 3

-----------------------------------------------------------------------------
(* Exits at startup *)

\* the process has ended before its command entered utils.Watch
ExitedAtStartup == exited /\ ~Subscribed

\* C20 as claimed: a run of Watch or WatchExtensions that ends at startup
\* validation (Spotify not moddable, current_theme blank or the theme not
\* found, no extension resolved) has established no watch, made no endpoint
\* discovery and asked for no relaunch of Spotify, liveUpdate true included
C20_StartupExitNoAction ==
    ExitedAtStartup =>
        /\ ~AssetSubscribed /\ fileList = <<>>
        /\ nDiscover = 0
        /\ nRelaunch = 0
====
